---- MODULE Spec2Model ----
(***************************************************************************)
(* A model of grunions/poc-spaces-upload: the Blob writer chain (gzip +    *)
(* sha256 + byte counters over one temporary file), the dedup check, the   *)
(* upload with its rollback delete, and the HTTP handlers multiUpload and  *)
(* directoryUpload of src/main.go.                                         *)
(***************************************************************************)
EXTENDS Integers, Sequences, FiniteSets, TLC

(***************************************************************************)
(* Bounds of the model.                                                    *)
(***************************************************************************)
\* longest byte sequence fed to one blob in the writer specification
MaxLen == 3
\* most files in one multipart request
MaxFiles == 2

\* the byte values payloads are made of
Byte == {0, 1}

RECURSIVE SeqsUpTo(_, _)
SeqsUpTo(S, n) ==
    IF n = 0 THEN {<<>>}
    ELSE LET shorter == SeqsUpTo(S, n - 1)
         IN  shorter \cup {Append(s, x) : s \in {t \in shorter : Len(t) = n - 1}, x \in S}

Take(s, n) == SubSeq(s, 1, n)
Drop(s, n) == SubSeq(s, n + 1, Len(s))

(***************************************************************************)
(* crypto/sha256: a streaming digest.  The state absorbs one byte at a     *)
(* time; Sum reads the state without changing it.  The fold below is       *)
(* injective on the byte sequences the model draws (a collision-free       *)
(* digest), and the digest is one byte wide.                               *)
(***************************************************************************)
DigestMod == 256
Sha256New == 0

Sha256Byte(h, b) == (h * 3 + b + 1) % DigestMod

RECURSIVE Sha256Write(_, _)
Sha256Write(h, p) ==
    IF p = <<>> THEN h ELSE Sha256Write(Sha256Byte(h, Head(p)), Tail(p))

\* hash.Hash.Sum(nil): the digest as a byte slice
Sha256Sum(h) == <<h>>

\* sha256.Sum256(B), the digest of B computed in one piece
Sha256Of(B) == Sha256Sum(Sha256Write(Sha256New, B))

(***************************************************************************)
(* compress/gzip over compress/flate.  The writer emits a header on the    *)
(* first Write, buffers input in a window and emits a compressed block     *)
(* for every full window, and on Close emits the remaining input and a     *)
(* trailer carrying a checksum and the input length.  A block is           *)
(* run-length coded.  Output units are triples <<tag, x, y>>.              *)
(***************************************************************************)
\* bytes the compressor buffers before it emits a block
GzWindow == 2

GzHeader == <<"hdr", 0, 0>>
GzTrailer(crc, isize) == <<"end", crc, isize>>

RECURSIVE RunLen(_, _)
\* length of the longest prefix of s made of byte b
RunLen(s, b) ==
    IF s = <<>> \/ Head(s) # b THEN 0 ELSE 1 + RunLen(Tail(s), b)

RECURSIVE Deflate(_)
\* one compressed block: the runs of the block
Deflate(block) ==
    IF block = <<>> THEN <<>>
    ELSE LET n == RunLen(block, Head(block))
         IN  <<<<"run", n, Head(block)>>>> \o Deflate(Drop(block, n))

RECURSIVE FlateFull(_)
\* the blocks emitted for the full windows at the front of the buffer
FlateFull(buf) ==
    IF Len(buf) < GzWindow THEN <<>>
    ELSE Deflate(Take(buf, GzWindow)) \o FlateFull(Drop(buf, GzWindow))

\* what stays buffered after the full windows are emitted
FlateRest(buf) == Drop(buf, (Len(buf) \div GzWindow) * GzWindow)

RECURSIVE Crc32Update(_, _)
Crc32Update(c, p) ==
    IF p = <<>> THEN c ELSE Crc32Update((c * 2 + Head(p) + 1) % 16, Tail(p))

\* gzip.NewWriterLevel: nothing written yet.  rejectsClosed is a property of
\* the compress/flate the program is built with: whether a Write after Close
\* returns an error (flate's "closed writer" error) or is buffered like any
\* other Write, as in the releases before that error was introduced.
\* gzip.Writer.Write itself does not look at closed.
GzNew == [buf |-> <<>>, wroteHeader |-> FALSE, closed |-> FALSE, err |-> FALSE,
          digest |-> 0, size |-> 0, rejectsClosed |-> TRUE]

\* gzip.Writer.Write(p) onto an underlying writer that accepts output iff io.
\* Result: the writer, the units that reached the underlying writer, n and err.
GzWrite(z, p, io) ==
    IF z.err THEN [z |-> z, out |-> <<>>, n |-> 0, err |-> TRUE]
    ELSE IF ~z.wroteHeader /\ ~io
    THEN [z |-> [z EXCEPT !.wroteHeader = TRUE, !.err = TRUE],
          out |-> <<>>, n |-> 0, err |-> TRUE]
    ELSE LET hdr == IF z.wroteHeader THEN <<>> ELSE <<GzHeader>>
             z1 == [z EXCEPT !.wroteHeader = TRUE,
                             !.size = z.size + Len(p),
                             !.digest = Crc32Update(z.digest, p)]
             all == z.buf \o p
             blocks == FlateFull(all)
         IN  IF (z.closed /\ z.rejectsClosed) \/ (blocks # <<>> /\ ~io)
             THEN [z |-> [z1 EXCEPT !.err = TRUE], out |-> hdr, n |-> 0, err |-> TRUE]
             ELSE [z |-> [z1 EXCEPT !.buf = FlateRest(all)],
                   out |-> hdr \o blocks, n |-> Len(p), err |-> FALSE]

\* gzip.Writer.Close(): flush the buffered input and write the trailer
GzClose(z, io) ==
    IF z.err THEN [z |-> z, out |-> <<>>, err |-> TRUE]
    ELSE IF z.closed THEN [z |-> z, out |-> <<>>, err |-> FALSE]
    ELSE IF ~io
    THEN [z |-> [z EXCEPT !.closed = TRUE, !.wroteHeader = TRUE, !.err = TRUE],
          out |-> <<>>, err |-> TRUE]
    ELSE LET hdr == IF z.wroteHeader THEN <<>> ELSE <<GzHeader>>
         IN  [z |-> [z EXCEPT !.closed = TRUE, !.wroteHeader = TRUE, !.buf = <<>>],
              out |-> hdr \o Deflate(z.buf) \o <<GzTrailer(z.digest, z.size)>>,
              err |-> FALSE]

RECURSIVE InflateRuns(_)
\* the bytes a sequence of run units stands for
InflateRuns(units) ==
    IF units = <<>> THEN <<>>
    ELSE [i \in 1..Head(units)[2] |-> Head(units)[3]] \o InflateRuns(Tail(units))

\* gzip.NewReader and a read to the end of the stream: the stream is the
\* header, runs, and a trailer whose checksum and length fit the bytes read
Gunzip(data) ==
    IF \/ Len(data) < 2
       \/ data[1] # GzHeader
       \/ data[Len(data)][1] # "end"
       \/ \E i \in 2..(Len(data) - 1) : data[i][1] # "run"
    THEN [ok |-> FALSE, bytes |-> <<>>]
    ELSE LET bytes == InflateRuns(SubSeq(data, 2, Len(data) - 1))
             t == data[Len(data)]
         IN  [ok |-> t[2] = Crc32Update(0, bytes) /\ t[3] = Len(bytes), bytes |-> bytes]

(***************************************************************************)
(* Blob (src/main.go:61-124).  File is the temporary file's name, data     *)
(* the units written to it and fileOpen whether it is still open.  ccw     *)
(* counts what reaches the file, ucw what the gzip writer accepted; mw     *)
(* is io.MultiWriter(ucw, hw): ucw first, hw only if ucw took the chunk.   *)
(***************************************************************************)
NewBlob(file) ==
    [IsDir |-> FALSE, Reference |-> "", File |-> file, data |-> <<>>, fileOpen |-> TRUE,
     gw |-> GzNew, hw |-> Sha256New, ccw |-> 0, ucw |-> 0]

\* the hash writer placed under the compressor: it absorbs what gzip emits
BlobWriteHashBelowGzip(blob, p, io) ==
    LET r == GzWrite(blob.gw, p, io /\ blob.fileOpen)
        b1 == [blob EXCEPT !.gw = r.z,
                           !.data = blob.data \o r.out,
                           !.ccw = blob.ccw + Len(r.out),
                           !.ucw = blob.ucw + r.n]
    IN  IF r.err THEN [blob |-> b1, err |-> TRUE]
        ELSE [blob |-> [b1 EXCEPT !.hw = Sha256Write(blob.hw, [i \in 1..Len(r.out) |-> r.out[i][3]])],
              err |-> FALSE]

\* the compressed-size counter placed above the compressor: it counts the
\* bytes passed to Write
BlobWriteCountsAboveGzip(blob, p, io) ==
    LET r == GzWrite(blob.gw, p, io /\ blob.fileOpen)
        b1 == [blob EXCEPT !.gw = r.z,
                           !.data = blob.data \o r.out,
                           !.ccw = blob.ccw + r.n,
                           !.ucw = blob.ucw + r.n]
    IN  IF r.err THEN [blob |-> b1, err |-> TRUE]
        ELSE [blob |-> [b1 EXCEPT !.hw = Sha256Write(blob.hw, p)], err |-> FALSE]

\* blob.mw.Write(p): the blob after the call and whether it returned an error
BlobWrite(blob, p, io) ==
    LET r == GzWrite(blob.gw, p, io /\ blob.fileOpen)
        b1 == [blob EXCEPT !.gw = r.z,
                           !.data = blob.data \o r.out,
                           !.ccw = blob.ccw + Len(r.out),
                           !.ucw = blob.ucw + r.n]
    IN  IF r.err THEN [blob |-> b1, err |-> TRUE]
        ELSE [blob |-> [b1 EXCEPT !.hw = Sha256Write(blob.hw, p)], err |-> FALSE]

\* blob.Close(): gw.Close() with its result dropped, then File.Close()
BlobClose(blob, io) ==
    LET r == GzClose(blob.gw, io /\ blob.fileOpen)
    IN  [blob EXCEPT !.gw = r.z,
                     !.data = blob.data \o r.out,
                     !.ccw = blob.ccw + Len(r.out),
                     !.fileOpen = FALSE]

BlobSize(blob) == blob.ccw
BlobUncompressedSize(blob) == blob.ucw
BlobHash(blob) == Sha256Sum(blob.hw)

RECURSIVE CopyChunks(_, _, _)
\* io.Copy(blob, fr): Write the chunks in order and stop at the first error
CopyChunks(blob, chunks, io) ==
    IF chunks = <<>> THEN [blob |-> blob, err |-> FALSE]
    ELSE LET r == BlobWrite(blob, Head(chunks), io)
         IN  IF r.err THEN r ELSE CopyChunks(r.blob, Tail(chunks), io)

(***************************************************************************)
(* fmt.Sprintf("blob/%x", v) and strconv.  %x of a []byte is two lowercase *)
(* hex digits per byte; %x of a func value is the hex of its code address  *)
(* with no padding.  Strings are sequences of one-character strings.       *)
(***************************************************************************)
HexDigit == <<"0", "1", "2", "3", "4", "5", "6", "7", "8", "9", "a", "b", "c", "d", "e", "f">>

RECURSIVE HexBytes(_)
HexBytes(bs) ==
    IF bs = <<>> THEN <<>>
    ELSE <<HexDigit[(Head(bs) \div 16) + 1], HexDigit[(Head(bs) % 16) + 1]>> \o HexBytes(Tail(bs))

RECURSIVE HexUint(_)
HexUint(n) ==
    IF n < 16 THEN <<HexDigit[n + 1]>> ELSE HexUint(n \div 16) \o <<HexDigit[(n % 16) + 1]>>

BytesValue(bs) == [kind |-> "bytes", v |-> bs]
FuncValue(addr) == [kind |-> "func", v |-> addr]

SprintfBlobX(arg) ==
    <<"b", "l", "o", "b", "/">> \o (IF arg.kind = "bytes" THEN HexBytes(arg.v) ELSE HexUint(arg.v))

RECURSIVE FormatInt(_)
\* strconv.FormatInt(n, 10) for n >= 0
FormatInt(n) ==
    IF n < 10 THEN <<HexDigit[n + 1]>> ELSE FormatInt(n \div 10) \o <<HexDigit[(n % 10) + 1]>>

FormatBool(b) == IF b THEN "true" ELSE "false"

\* The code address of the method value blob.Hash (a func() []byte).  The
\* value depends on the build; every value gives a string that is not the
\* hex of a digest, which has two digits per digest byte.
BlobHashMethodValue == 4857440

(***************************************************************************)
(* The object store (minio client): keys to objects.  An object is the     *)
(* stored body, its size and the user metadata of the put.                 *)
(***************************************************************************)
\* the file names requests carry
Names == <<"a.txt", "b.txt">>

NameCode(name) == CHOOSE i \in 1..Len(Names) : Names[i] = name

\* Reader: the key read for a content hash
ReaderKey(hash) == SprintfBlobX(BytesValue(hash))

\* CheckDuplicate: remoteFilename, formatted from blob.Hash (not called)
CheckDuplicateKey(blob) == SprintfBlobX(FuncValue(BlobHashMethodValue))

\* the reference made part of the key: the hash followed by a byte for the name
UploadBlobKeyWithReference(blob) ==
    SprintfBlobX(BytesValue(BlobHash(blob) \o <<NameCode(blob.Reference)>>))

\* UploadBlob: remoteFilename, formatted from blob.Hash()
UploadBlobKey(blob) == SprintfBlobX(BytesValue(BlobHash(blob)))

\* a GetObject error answered with "found"
CheckDuplicateErrIsFound(s, blob, ans) ==
    LET remoteFilename == CheckDuplicateKey(blob)
    IN  IF ans = "geterr" THEN TRUE
        ELSE IF ans = "staterr" \/ remoteFilename \notin DOMAIN s THEN FALSE
        ELSE IF BlobSize(blob) # s[remoteFilename].size THEN FALSE
        ELSE TRUE

\* CheckDuplicate(client, blob) against store s; ans is how the backend
\* answers: "ok", "geterr" (GetObject fails) or "staterr" (Stat fails)
CheckDuplicate(s, blob, ans) ==
    LET remoteFilename == CheckDuplicateKey(blob)
    IN  IF ans = "geterr" THEN FALSE
        ELSE IF ans = "staterr" \/ remoteFilename \notin DOMAIN s THEN FALSE
        ELSE IF BlobSize(blob) # s[remoteFilename].size THEN FALSE
        ELSE TRUE

\* the object FPutObject stores for the blob's temporary file
PutObject(blob) ==
    [size |-> Len(blob.data), body |-> blob.data,
     UncompressedSize |-> FormatInt(BlobUncompressedSize(blob)),
     ReferenceName |-> blob.Reference,
     IsDir |-> FormatBool(blob.IsDir)]

\* a put that does not replace an object already under the key
StorePutKeepsObject(s, key, obj) == s @@ (key :> obj)

StorePut(s, key, obj) == (key :> obj) @@ s
StoreRemove(s, key) == [k \in DOMAIN s \ {key} |-> s[k]]

(***************************************************************************)
(* ReaderToBlob (src/main.go:138-158).  fault says what goes wrong while   *)
(* staging: "none"; "tempfile" (ioutil.TempFile fails); "write" (the       *)
(* temporary file rejects writes); "read" (the reader fails before its     *)
(* last chunk); "flush" (the file rejects the writes of Close).            *)
(***************************************************************************)
\* bytes io.Copy moves per Write
CopyBufLen == 2

StageFaults == {"none", "tempfile", "write", "read", "flush"}

RECURSIVE Chunked(_)
Chunked(B) ==
    IF Len(B) <= CopyBufLen THEN (IF B = <<>> THEN <<>> ELSE <<B>>)
    ELSE <<Take(B, CopyBufLen)>> \o Chunked(Drop(B, CopyBufLen))

\* Result: panic (nil dereference of the blob NewBlob did not return), err
\* (the wrapped copy error, the file removed), or the closed blob.
ReaderToBlob(B, file, fault) ==
    IF fault = "tempfile"
    THEN [panic |-> TRUE, err |-> TRUE, blob |-> NewBlob(file)]
    ELSE LET chunks == Chunked(B)
             fed == IF fault = "read" THEN Take(chunks, Len(chunks) - 1) ELSE chunks
             c == CopyChunks(NewBlob(file), fed, fault # "write")
         IN  IF c.err \/ fault = "read"
             THEN [panic |-> FALSE, err |-> TRUE, blob |-> BlobClose(c.blob, fault # "write")]
             ELSE [panic |-> FALSE, err |-> FALSE,
                   blob |-> BlobClose(BlobClose(c.blob, fault # "flush"), TRUE)]

(***************************************************************************)
(* archive/tar as directoryUpload uses it: a header per file, then the     *)
(* file's bytes; Close ends the archive.  A header is coded as numbers.    *)
(***************************************************************************)
\* tar.Header{Name, Mode: 0640, Size} as it is written to the archive
TarHeader(name, size) == <<100 + NameCode(name), 416, size>>

\* tar.Writer.Close: the end-of-archive marker
TarFooter == <<0, 0>>

(***************************************************************************)
(* TarDir (src/main.go:218-278) and Untargz (src/main.go:282-356).  Paths  *)
(* and names are strings, sequences of one-character strings.  A directory *)
(* tree is the sequence of the entries filepath.Walk visits, in its order  *)
(* (the root first, each directory before its children, names in lexical   *)
(* order); an entry has the path under the root (rel), its kind, its       *)
(* permission bits, its modification time, its owner, and for a regular    *)
(* file its bytes, for a symlink its target.                               *)
(***************************************************************************)
Separator == <<"/">>

RECURSIVE StringsReplace(_, _)
\* strings.Replace(s, old, "", -1): every non-overlapping occurrence removed
StringsReplace(s, old) ==
    IF old = <<>> \/ Len(s) < Len(old) THEN s
    ELSE IF Take(s, Len(old)) = old THEN StringsReplace(Drop(s, Len(old)), old)
    ELSE <<Head(s)>> \o StringsReplace(Tail(s), old)

\* strings.TrimPrefix(s, prefix)
StringsTrimPrefix(s, prefix) ==
    IF Len(s) >= Len(prefix) /\ Take(s, Len(prefix)) = prefix THEN Drop(s, Len(prefix)) ELSE s

RECURSIVE Base(_)
\* os.FileInfo.Name(): the last element of the path
Base(path) ==
    IF \A i \in DOMAIN path : path[i] # "/" THEN path
    ELSE Base(Tail(path))

RECURSIVE Components(_)
\* the elements of a path: what stands between its separators
Components(path) ==
    IF path = <<>> THEN <<>>
    ELSE LET seps == {i \in DOMAIN path : path[i] = "/"}
             n == IF seps = {} THEN Len(path) + 1
                  ELSE CHOOSE i \in seps : \A j \in seps : i <= j
             first == Take(path, n - 1)
             rest == IF n >= Len(path) THEN <<>> ELSE Drop(path, n)
         IN  (IF first = <<>> THEN <<>> ELSE <<first>>) \o Components(rest)

RECURSIVE Rooted(_)
\* the rooted path made of the elements
Rooted(elems) ==
    IF elems = <<>> THEN Separator
    ELSE IF Len(elems) = 1 THEN Separator \o elems[1]
    ELSE Rooted(Take(elems, Len(elems) - 1)) \o Separator \o elems[Len(elems)]

RECURSIVE CleanElems(_, _)
\* filepath.Clean on the elements of a rooted path: "." is dropped, ".."
\* removes the element before it and is dropped at the root
CleanElems(done, elems) ==
    IF elems = <<>> THEN done
    ELSE IF Head(elems) = <<".">> THEN CleanElems(done, Tail(elems))
    ELSE IF Head(elems) = <<".", ".">>
    THEN CleanElems(IF done = <<>> THEN done ELSE Take(done, Len(done) - 1), Tail(elems))
    ELSE CleanElems(Append(done, Head(elems)), Tail(elems))

\* filepath.Clean of a rooted path
Clean(path) == Rooted(CleanElems(<<>>, Components(path)))

\* filepath.Join(dir, name) for a rooted dir: the two joined by a separator,
\* then cleaned
Join(dir, name) == Clean(dir \o Separator \o name)

\* the characters of paths and their codes in the archive
Alphabet == <<"/", "a", "b", "r", ".">>
CharCode(c) == CHOOSE i \in 1..Len(Alphabet) : Alphabet[i] = c

\* tar type flags: '0' regular, '2' symlink, '5' directory, '6' fifo
TypeReg == 48
TypeSymlink == 50
TypeDir == 53
TypeFifo == 54

\* tar.FileInfoHeader(fi, link) for the entry e found at path file, and the
\* two assignments TarDir makes to it.  A socket has no header (an error).
FileInfoHeader(e, link) ==
    [Typeflag |-> CASE e.kind = "reg" -> TypeReg
                    [] e.kind = "dir" -> TypeDir
                    [] e.kind = "symlink" -> TypeSymlink
                    [] OTHER -> TypeFifo,
     Name |-> IF e.kind = "dir" THEN Base(e.rel) \o Separator ELSE Base(e.rel),
     Mode |-> e.perm,
     Uid |-> e.uid,
     Size |-> IF e.kind = "reg" THEN Len(e.body) ELSE 0,
     ModTime |-> e.mtime,
     Linkname |-> IF e.kind = "symlink" THEN link ELSE <<>>]

\* a string in the archive: its length, then its characters
EncodeString(str) == <<Len(str)>> \o [i \in 1..Len(str) |-> CharCode(str[i])]

\* tar.Writer.WriteHeader: the header block
WriteHeader(h) ==
    <<h.Typeflag>> \o EncodeString(h.Name) \o <<h.Mode, h.Uid, h.Size, h.ModTime>>
        \o EncodeString(h.Linkname)

\* the path Walk passes for the entry: the root, or the root joined with rel
WalkPath(src, e) == Join(src, e.rel)

\* the header TarDir writes for the entry
TarDirHeader(src, e) ==
    LET file == WalkPath(src, e)
        fi == [e EXCEPT !.rel = file]
        header == FileInfoHeader(fi, Base(file))
    IN  [header EXCEPT !.ModTime = 0,
                       !.Name = StringsTrimPrefix(StringsReplace(file, src), Separator)]

RECURSIVE TarDirWrites(_, _)
\* the Writes the walk makes on the tar writer's destination, entry by entry,
\* and whether the walk stopped with an error
TarDirWrites(src, entries) ==
    IF entries = <<>> THEN [writes |-> <<>>, err |-> FALSE]
    ELSE LET e == Head(entries)
         IN  IF e.kind = "socket" THEN [writes |-> <<>>, err |-> TRUE]
             ELSE LET rest == TarDirWrites(src, Tail(entries))
                      own == <<WriteHeader(TarDirHeader(src, e))>>
                                \o (IF e.kind = "reg" /\ e.body # <<>> THEN <<e.body>> ELSE <<>>)
                  IN  [writes |-> own \o rest.writes, err |-> rest.err]

\* TarDir(src, blob) for the tree at src: the entries' Writes, then the
\* footer of the deferred tw.Close().  The blob is left open.
TarDir(tree, blob, io) ==
    LET w == TarDirWrites(tree.src, tree.entries)
        c == CopyChunks(blob, w.writes \o <<TarFooter>>, io)
    IN  [blob |-> c.blob, err |-> w.err \/ c.err]

\* the bytes a gzip reader yields before the stream's end or first bad unit;
\* err when the stream does not start with a gzip header
GunzipRead(data) ==
    IF data = <<>> \/ data[1] # GzHeader THEN [err |-> TRUE, bytes |-> <<>>]
    ELSE LET bad == {i \in 2..Len(data) : data[i][1] # "run"}
             last == IF bad = {} THEN Len(data) ELSE (CHOOSE i \in bad : \A j \in bad : i <= j) - 1
         IN  [err |-> FALSE, bytes |-> InflateRuns(SubSeq(data, 2, last))]

DecodeString(codes) == [i \in 1..Len(codes) |-> Alphabet[codes[i]]]

\* tar.Reader.Next and the read of the entry's bytes: the end of the archive
\* (eof), a header with its bytes and the rest of the stream, or an error when
\* the stream ends early
TarNext(s) ==
    LET none == [Typeflag |-> 0, Name |-> <<>>, Mode |-> 0, Uid |-> 0, Size |-> 0,
                 ModTime |-> 0, Linkname |-> <<>>]
        fail == [eof |-> FALSE, err |-> TRUE, header |-> none, body |-> <<>>, rest |-> <<>>]
    IN  IF s = <<>> THEN fail
        ELSE IF s[1] = 0 THEN [fail EXCEPT !.eof = TRUE, !.err = FALSE]
        ELSE IF Len(s) < 2 \/ Len(s) < 2 + s[2] + 5 THEN fail
        ELSE LET k == 3 + s[2]
                 b == k + 5 + s[k + 4]
             IN  IF Len(s) < b - 1 + s[k + 2] THEN fail
                 ELSE [eof |-> FALSE, err |-> FALSE,
                       header |-> [Typeflag |-> s[1],
                                   Name |-> DecodeString(SubSeq(s, 3, k - 1)),
                                   Mode |-> s[k], Uid |-> s[k + 1], Size |-> s[k + 2],
                                   ModTime |-> s[k + 3],
                                   Linkname |-> DecodeString(SubSeq(s, k + 5, b - 1))],
                       body |-> SubSeq(s, b, b - 1 + s[k + 2]),
                       rest |-> Drop(s, b - 1 + s[k + 2])]

RECURSIVE Dir(_)
\* filepath.Dir: the path without its last element; the root for an element
\* of the root
Dir(path) ==
    IF path = <<>> THEN <<>>
    ELSE IF path[Len(path)] = "/"
    THEN (IF Len(path) = 1 THEN path ELSE Take(path, Len(path) - 1))
    ELSE Dir(Take(path, Len(path) - 1))

DirNode == [kind |-> "dir", perm |-> 493, body |-> <<>>, link |-> <<>>]

RECURSIVE MkdirAll(_, _)
\* os.MkdirAll(path, 0755): the missing directories of the path, parents first
MkdirAll(fs, path) ==
    IF path \in DOMAIN fs \/ path = <<>> \/ path = Separator THEN fs
    ELSE (path :> DirNode) @@ MkdirAll(fs, Dir(path))

RECURSIVE FollowLinks(_, _, _, _)
\* the path the kernel reaches for the elements, following every symlink on
\* the way; links counts the symlinks it may still follow (ELOOP beyond)
FollowLinks(fs, done, elems, links) ==
    IF elems = <<>> THEN [ok |-> TRUE, path |-> Rooted(done)]
    ELSE IF Head(elems) = <<".">> THEN FollowLinks(fs, done, Tail(elems), links)
    ELSE IF Head(elems) = <<".", ".">>
    THEN FollowLinks(fs, IF done = <<>> THEN done ELSE Take(done, Len(done) - 1),
                     Tail(elems), links)
    ELSE LET at == Rooted(Append(done, Head(elems)))
         IN  IF at \in DOMAIN fs /\ fs[at].kind = "symlink"
             THEN IF links = 0 THEN [ok |-> FALSE, path |-> at]
                  ELSE FollowLinks(fs,
                                   IF fs[at].link # <<>> /\ fs[at].link[1] = "/"
                                   THEN <<>> ELSE done,
                                   Components(fs[at].link) \o Tail(elems), links - 1)
             ELSE FollowLinks(fs, Append(done, Head(elems)), Tail(elems), links)

\* the file a system call on path reaches
RealPath(fs, path) == FollowLinks(fs, <<>>, Components(path), Cardinality(DOMAIN fs))

\* one entry of the archive extracted to target (the switch of Untargz)
Extract(fs, target, header, body) ==
    LET real == RealPath(fs, target)
        at == real.path
        parentOK(q) == Dir(q) \in DOMAIN fs /\ fs[Dir(q)].kind = "dir"
        blocked(q) == \E i \in 1..(Len(q) - 1) :
                          /\ q[i + 1] = "/"
                          /\ Take(q, i) \in DOMAIN fs
                          /\ fs[Take(q, i)].kind # "dir"
        up == RealPath(fs, Dir(target))
        link == IF up.path = Separator THEN up.path \o Base(target)
                ELSE up.path \o Separator \o Base(target)
    IN  CASE header.Typeflag = TypeDir ->
               \* os.Stat(target) fails: os.MkdirAll(target, 0755)
               IF real.ok /\ at \in DOMAIN fs THEN [fs |-> fs, err |-> FALSE]
               ELSE IF ~real.ok \/ target \in DOMAIN fs \/ blocked(at)
               THEN [fs |-> fs, err |-> TRUE]
               ELSE [fs |-> MkdirAll(fs, at), err |-> FALSE]
          [] header.Typeflag = TypeReg ->
               \* os.OpenFile(target, O_CREATE|O_RDWR, mode), then the copy
               IF ~real.ok THEN [fs |-> fs, err |-> TRUE]
               ELSE IF at \notin DOMAIN fs
               THEN [fs |-> IF parentOK(at)
                            THEN (at :> [kind |-> "reg", perm |-> header.Mode,
                                         body |-> body, link |-> <<>>]) @@ fs
                            ELSE fs,
                     err |-> ~parentOK(at)]
               ELSE IF fs[at].kind = "reg"
               THEN [fs |-> [fs EXCEPT ![at].body = body \o Drop(@, Len(body))],
                     err |-> FALSE]
               ELSE [fs |-> fs, err |-> TRUE]
          [] header.Typeflag = TypeSymlink ->
               \* os.Symlink(header.Linkname, target)
               IF ~up.ok \/ link \in DOMAIN fs \/ ~parentOK(link)
               THEN [fs |-> fs, err |-> TRUE]
               ELSE [fs |-> (link :> [kind |-> "symlink", perm |-> 511, body |-> <<>>,
                                      link |-> header.Linkname]) @@ fs,
                     err |-> FALSE]
          [] OTHER -> [fs |-> fs, err |-> FALSE]

RECURSIVE UntarLoop(_, _, _)
\* the loop of Untargz over the tar stream s
UntarLoop(fs, dst, s) ==
    LET n == TarNext(s)
    IN  IF n.eof THEN [fs |-> fs, err |-> FALSE]
        ELSE IF n.err THEN [fs |-> fs, err |-> TRUE]
        ELSE LET x == Extract(fs, Join(dst, n.header.Name), n.header, n.body)
             IN  IF x.err THEN x ELSE UntarLoop(x.fs, dst, n.rest)

\* Untargz(dst, r) where r yields the gzip stream data and fs is the file
\* system: the file system afterwards and whether an error was returned
Untargz(fs, dst, data) ==
    LET g == GunzipRead(data)
    IN  IF g.err THEN [fs |-> fs, err |-> TRUE] ELSE UntarLoop(fs, dst, g.bytes)

RECURSIVE DirWrites(_)
\* the Writes of directoryUpload's loop for the files, in the order given: a
\* header and the bytes for each file that opens
DirWrites(files) ==
    IF files = <<>> THEN <<>>
    ELSE (IF Head(files).openOK
          THEN <<TarHeader(Head(files).Filename, Len(Head(files).body))>>
                  \o Chunked(Head(files).body)
          ELSE <<>>) \o DirWrites(Tail(files))

\* the blob directoryUpload hands to UploadBlob for the files when no write
\* fails: the loop, tw.Close(), blob.Close()
DirBlob(files, file) ==
    BlobClose(CopyChunks([NewBlob(file) EXCEPT !.IsDir = TRUE],
                         DirWrites(files) \o <<TarFooter>>, TRUE).blob, TRUE)

(***************************************************************************)
(* State.                                                                  *)
(***************************************************************************)
VARIABLES
    store,      \* the bucket: key -> object
    tmpfiles,   \* names of the temporary files that exist
    pc,         \* per uploader: where its request handler stands
    mode,       \* per uploader: "multi" (multiUpload) or "dir" (directoryUpload)
    nfiles,     \* per uploader: number of files of the request
    idx,        \* per uploader: files of the request already passed by the loop
    cur,        \* per uploader: the file the loop is at
    blob,       \* per uploader: the blob being staged or uploaded
    defers,     \* per uploader: temporary files with a deferred os.Remove
    out,        \* per uploader: lines written to the response, with the item
    ops,        \* per uploader: store calls issued, in order
    items,      \* per uploader: the files the loop has taken, in order
    panicked,   \* per uploader: the handler ended in a panic
    wB, wchunks, wdone, wblob, wstate,  \* the writer alone: input, chunks left, chunks written, blob
    tA, tB,     \* two directory trees, each with the path of its root
    arcA, arcB, \* what TarDir made of each tree: the blob, and whether it failed
    xfs         \* the file system Untargz extracted the archive of tA into

vars == <<store, tmpfiles, pc, mode, nfiles, idx, cur, blob, defers, out, ops, items,
          panicked, wB, wchunks, wdone, wblob, wstate, tA, tB, arcA, arcB, xfs>>
procVars == <<store, tmpfiles, pc, mode, nfiles, idx, cur, blob, defers, out, ops, items,
              panicked>>
writerVars == <<wB, wchunks, wdone, wblob, wstate>>
tarVars == <<tA, tB, arcA, arcB, xfs>>

\* handler invocations; the second one takes part in the concurrent runs only
Uploaders == {"u1", "u2"}

\* the payloads requests carry
Contents == {<<1, 1>>, <<0, 1, 1>>}

Files == [Filename : {Names[i] : i \in 1..Len(Names)}, body : Contents, openOK : BOOLEAN]

NoBlob == NewBlob(<<"none", 0>>)
NoFile == [Filename |-> "", body |-> <<>>, openOK |-> FALSE]

\* no tree, no archive made yet, nothing extracted yet
NoTree == [src |-> <<>>, entries |-> <<>>]
NoArchive == [made |-> FALSE, err |-> FALSE, blob |-> NoBlob]
NoExtract == [made |-> FALSE, err |-> FALSE, fs |-> <<>>]

\* objects another writer may have left in the bucket: under a digest key
\* or under any other key, with any size
PriorSizes == {3, 5}
PriorObject(n) ==
    [size |-> n, body |-> <<>>, UncompressedSize |-> <<"0">>,
     ReferenceName |-> "prior", IsDir |-> "false"]
PriorKeys == {ReaderKey(Sha256Of(B)) : B \in Contents}
                 \cup {SprintfBlobX(FuncValue(BlobHashMethodValue))}
PriorStores ==
    {[k \in K |-> PriorObject(sz[k])] : K \in SUBSET PriorKeys, sz \in [PriorKeys -> PriorSizes]}

(***************************************************************************)
(* The handlers.  One action per step of a handler; a step that calls the  *)
(* store is one action, so that uploaders interleave between store calls.  *)
(***************************************************************************)
Line(p, text) == [item |-> idx[p] + 1, line |-> text]
Emit(p, text) == out' = [out EXCEPT ![p] = Append(@, Line(p, text))]
\* a store call as the history keeps it: the item it is made for (0: the one
\* archive of directoryUpload), the call, its key, the backend's answer, and
\* the hash and compressed size of the blob it is made with
Call(p, name, key, res) ==
    ops' = [ops EXCEPT ![p] = Append(@, [item |-> IF mode[p] = "dir" THEN 0 ELSE idx[p] + 1,
                                         op |-> name, key |-> key, res |-> res,
                                         hash |-> BlobHash(blob[p]),
                                         size |-> BlobSize(blob[p])])]
TmpName(p) == <<p, idx[p] + 1>>

Init ==
    /\ store \in PriorStores
    /\ tmpfiles = {}
    /\ pc = [p \in Uploaders |-> IF p = "u1" THEN "idle" ELSE "off"]
    /\ mode = [p \in Uploaders |-> "multi"]
    /\ nfiles = [p \in Uploaders |-> 0]
    /\ idx = [p \in Uploaders |-> 0]
    /\ cur = [p \in Uploaders |-> NoFile]
    /\ blob = [p \in Uploaders |-> NoBlob]
    /\ defers = [p \in Uploaders |-> <<>>]
    /\ out = [p \in Uploaders |-> <<>>]
    /\ ops = [p \in Uploaders |-> <<>>]
    /\ items = [p \in Uploaders |-> <<>>]
    /\ panicked = [p \in Uploaders |-> FALSE]
    /\ wB = <<>> /\ wchunks = <<>> /\ wdone = <<>> /\ wblob = NoBlob /\ wstate = "off"
    /\ tA = NoTree /\ tB = NoTree /\ arcA = NoArchive /\ arcB = NoArchive /\ xfs = NoExtract

\* a request arrives: the router calls multiUpload or directoryUpload
Request(p) ==
    /\ pc[p] = "idle"
    /\ \E m \in {"multi", "dir"}, n \in 1..MaxFiles :
          /\ mode' = [mode EXCEPT ![p] = m]
          /\ nfiles' = [nfiles EXCEPT ![p] = n]
          /\ pc' = [pc EXCEPT ![p] = IF m = "multi" THEN "m_loop" ELSE "d_new"]
    /\ idx' = [idx EXCEPT ![p] = 0]
    /\ items' = [items EXCEPT ![p] = <<>>]
    /\ defers' = [defers EXCEPT ![p] = <<>>]
    /\ panicked' = [panicked EXCEPT ![p] = FALSE]
    /\ cur' = [cur EXCEPT ![p] = NoFile]
    /\ blob' = [blob EXCEPT ![p] = NoBlob]
    /\ UNCHANGED <<store, tmpfiles, out, ops, writerVars, tarVars>>

\* multiUpload, loop head and file.Open: the next file, or the end of the loop
MultiOpen(p) ==
    /\ pc[p] = "m_loop"
    /\ idx[p] < nfiles[p]
    /\ \E f \in Files :
          /\ cur' = [cur EXCEPT ![p] = f]
          /\ items' = [items EXCEPT ![p] = Append(@, f)]
          /\ IF f.openOK
             THEN pc' = [pc EXCEPT ![p] = "m_stage"] /\ idx' = idx
             ELSE pc' = pc /\ idx' = [idx EXCEPT ![p] = @ + 1]
    /\ UNCHANGED <<store, tmpfiles, mode, nfiles, blob, defers, out, ops, panicked,
                   writerVars, tarVars>>

MultiDone(p) ==
    /\ pc[p] = "m_loop"
    /\ idx[p] = nfiles[p]
    /\ out' = [out EXCEPT ![p] = Append(@, [item |-> 0,
                                            line |-> "Upload completed"])]
    /\ pc' = [pc EXCEPT ![p] = "ret"]
    /\ UNCHANGED <<store, tmpfiles, mode, nfiles, idx, cur, blob, defers, ops, items,
                   panicked, writerVars, tarVars>>

\* multiUpload: ReaderToBlob, the deferred os.Remove, blob.Reference
MultiStage(p) ==
    /\ pc[p] = "m_stage"
    /\ \E fault \in StageFaults :
          LET r == ReaderToBlob(cur[p].body, TmpName(p), fault)
          IN  IF r.panic
              THEN /\ panicked' = [panicked EXCEPT ![p] = TRUE]
                   /\ pc' = [pc EXCEPT ![p] = "ret"]
                   /\ UNCHANGED <<blob, defers, tmpfiles, out>>
              ELSE IF r.err
              THEN /\ Emit(p, "Error")
                   /\ pc' = [pc EXCEPT ![p] = "ret"]
                   /\ UNCHANGED <<blob, defers, tmpfiles, panicked>>
              ELSE /\ blob' = [blob EXCEPT ![p] = [r.blob EXCEPT !.Reference = cur[p].Filename]]
                   /\ defers' = [defers EXCEPT ![p] = Append(@, r.blob.File)]
                   /\ tmpfiles' = tmpfiles \cup {r.blob.File}
                   /\ pc' = [pc EXCEPT ![p] = "m_check"]
                   /\ UNCHANGED <<out, panicked>>
    /\ UNCHANGED <<store, mode, nfiles, idx, cur, ops, items, writerVars, tarVars>>

\* multiUpload: CheckDuplicate and the branch on its result
MultiCheck(p) ==
    /\ pc[p] = "m_check"
    /\ \E ans \in {"ok", "geterr", "staterr"} :
          /\ Call(p, "stat", CheckDuplicateKey(blob[p]),
                  IF ans # "ok" THEN ans
                  ELSE IF CheckDuplicateKey(blob[p]) \in DOMAIN store THEN "found"
                  ELSE "absent")
          /\ IF CheckDuplicate(store, blob[p], ans)
             THEN /\ Emit(p, "replaced")
                  /\ idx' = [idx EXCEPT ![p] = @ + 1]
                  /\ pc' = [pc EXCEPT ![p] = "m_loop"]
             ELSE /\ pc' = [pc EXCEPT ![p] = "put"]
                  /\ UNCHANGED <<out, idx>>
    /\ UNCHANGED <<store, tmpfiles, mode, nfiles, cur, blob, defers, items, panicked,
                   writerVars, tarVars>>

\* UploadBlob: FPutObject.  ans is the backend's answer: "ok"; "err" (the put
\* fails and stores nothing); "errstored" (the put reports an error after the
\* object was stored).  On success the caller's next statement runs.
UploadPut(p) ==
    /\ pc[p] = "put"
    /\ \E ans \in {"ok", "err", "errstored"} :
          LET remoteFilename == UploadBlobKey(blob[p])
          IN  /\ Call(p, "put", remoteFilename, ans)
              /\ store' = IF ans = "err" THEN store
                          ELSE StorePut(store, remoteFilename, PutObject(blob[p]))
              /\ IF ans # "ok"
                 THEN pc' = [pc EXCEPT ![p] = "rollback"] /\ UNCHANGED <<out, idx>>
                 ELSE IF mode[p] = "multi"
                 THEN /\ Emit(p, "Uploaded")
                      /\ idx' = [idx EXCEPT ![p] = @ + 1]
                      /\ pc' = [pc EXCEPT ![p] = "m_loop"]
                 ELSE /\ out' = [out EXCEPT ![p] = Append(@, [item |-> 0,
                                                              line |-> "Upload completed"])]
                      /\ pc' = [pc EXCEPT ![p] = "ret"]
                      /\ idx' = idx
    /\ UNCHANGED <<tmpfiles, mode, nfiles, cur, blob, defers, items, panicked,
                   writerVars, tarVars>>

\* the result of RemoveObject assigned to err: a delete that succeeds masks the
\* failed put and the caller goes on as after a successful upload
UploadRollbackMasksPutError(p) ==
    /\ pc[p] = "rollback"
    /\ \E ans \in {"ok", "err"} :
          LET remoteFilename == UploadBlobKey(blob[p])
          IN  /\ Call(p, "delete", remoteFilename, ans)
              /\ store' = IF ans = "ok" THEN StoreRemove(store, remoteFilename) ELSE store
              /\ IF ans = "ok"
                 THEN /\ Emit(p, "Uploaded")
                      /\ pc' = [pc EXCEPT ![p] = "ret"]
                      /\ panicked' = panicked
                 ELSE /\ pc' = [pc EXCEPT ![p] = "ret"]
                      /\ IF mode[p] = "multi"
                         THEN Emit(p, "Error") /\ panicked' = panicked
                         ELSE panicked' = [panicked EXCEPT ![p] = TRUE] /\ out' = out
    /\ UNCHANGED <<tmpfiles, mode, nfiles, idx, cur, blob, defers, items, writerVars, tarVars>>

\* UploadBlob after a failed put: RemoveObject with its result dropped, then
\* the wrapped error returns: multiUpload prints Error, directoryUpload panics
UploadRollback(p) ==
    /\ pc[p] = "rollback"
    /\ \E ans \in {"ok", "err"} :
          LET remoteFilename == UploadBlobKey(blob[p])
          IN  /\ Call(p, "delete", remoteFilename, ans)
              /\ store' = IF ans = "ok" THEN StoreRemove(store, remoteFilename) ELSE store
    /\ IF mode[p] = "multi"
       THEN Emit(p, "Error") /\ panicked' = panicked
       ELSE panicked' = [panicked EXCEPT ![p] = TRUE] /\ out' = out
    /\ pc' = [pc EXCEPT ![p] = "ret"]
    /\ UNCHANGED <<tmpfiles, mode, nfiles, idx, cur, blob, defers, items, writerVars, tarVars>>

\* directoryUpload: NewBlob, IsDir, the deferred os.Remove
DirNew(p) ==
    /\ pc[p] = "d_new"
    /\ \E ok \in BOOLEAN :
          IF ok
          THEN /\ blob' = [blob EXCEPT ![p] = [NewBlob(TmpName(p)) EXCEPT !.IsDir = TRUE]]
               /\ defers' = [defers EXCEPT ![p] = Append(@, TmpName(p))]
               /\ tmpfiles' = tmpfiles \cup {TmpName(p)}
               /\ pc' = [pc EXCEPT ![p] = "d_loop"]
               /\ out' = out
          ELSE /\ out' = [out EXCEPT ![p] = Append(@, [item |-> 0,
                                                       line |-> "error opening archive"])]
               /\ pc' = [pc EXCEPT ![p] = "ret"]
               /\ UNCHANGED <<blob, defers, tmpfiles>>
    /\ UNCHANGED <<store, mode, nfiles, idx, cur, ops, items, panicked, writerVars, tarVars>>

\* directoryUpload, one turn of the loop: Open, WriteHeader, io.Copy
DirFile(p) ==
    /\ pc[p] = "d_loop"
    /\ idx[p] < nfiles[p]
    /\ \E f \in Files, io \in BOOLEAN :
          /\ cur' = [cur EXCEPT ![p] = f]
          /\ items' = [items EXCEPT ![p] = Append(@, f)]
          /\ IF ~f.openOK
             THEN /\ idx' = [idx EXCEPT ![p] = @ + 1]
                  /\ UNCHANGED <<pc, blob, out>>
             ELSE LET h == BlobWrite(blob[p], TarHeader(f.Filename, Len(f.body)), io)
                      c == CopyChunks(h.blob, Chunked(f.body), io)
                  IN  IF h.err
                      THEN /\ Emit(p, "Error")
                           /\ blob' = [blob EXCEPT ![p] = h.blob]
                           /\ pc' = [pc EXCEPT ![p] = "ret"]
                           /\ idx' = idx
                      ELSE IF c.err
                      THEN /\ Emit(p, "Error")
                           /\ blob' = [blob EXCEPT ![p] = c.blob]
                           /\ pc' = [pc EXCEPT ![p] = "ret"]
                           /\ idx' = idx
                      ELSE /\ Emit(p, "Uploaded")
                           /\ blob' = [blob EXCEPT ![p] = c.blob]
                           /\ idx' = [idx EXCEPT ![p] = @ + 1]
                           /\ pc' = pc
    /\ UNCHANGED <<store, tmpfiles, mode, nfiles, defers, ops, panicked, writerVars, tarVars>>

\* directoryUpload after the loop: tw.Close(), blob.Close(), then UploadBlob
DirFinish(p) ==
    /\ pc[p] = "d_loop"
    /\ idx[p] = nfiles[p]
    /\ \E io \in BOOLEAN :
          blob' = [blob EXCEPT ![p] = BlobClose(BlobWrite(@, TarFooter, io).blob, io)]
    /\ pc' = [pc EXCEPT ![p] = "put"]
    /\ UNCHANGED <<store, tmpfiles, mode, nfiles, idx, cur, defers, out, ops, items,
                   panicked, writerVars, tarVars>>

\* the removals placed at the end of the handler instead of deferred: a panic
\* skips them
HandlerReturnRemoveNotDeferred(p) ==
    /\ pc[p] = "ret"
    /\ tmpfiles' = IF panicked[p] THEN tmpfiles
                   ELSE tmpfiles \ {defers[p][i] : i \in 1..Len(defers[p])}
    /\ pc' = [pc EXCEPT ![p] = "done"]
    /\ UNCHANGED <<store, mode, nfiles, idx, cur, blob, defers, out, ops, items,
                   panicked, writerVars, tarVars>>

\* the handler returns or unwinds: the deferred os.Remove calls run
HandlerReturn(p) ==
    /\ pc[p] = "ret"
    /\ tmpfiles' = tmpfiles \ {defers[p][i] : i \in 1..Len(defers[p])}
    /\ pc' = [pc EXCEPT ![p] = "done"]
    /\ UNCHANGED <<store, mode, nfiles, idx, cur, blob, defers, out, ops, items,
                   panicked, writerVars, tarVars>>

Next ==
    \E p \in Uploaders :
        \/ Request(p)
        \/ MultiOpen(p)
        \/ MultiDone(p)
        \/ MultiStage(p)
        \/ MultiCheck(p)
        \/ UploadPut(p)
        \/ UploadRollback(p)
        \/ DirNew(p)
        \/ DirFile(p)
        \/ DirFinish(p)
        \/ HandlerReturn(p)

Spec == Init /\ [][Next]_vars

(***************************************************************************)
(* The writer alone: one blob, a byte sequence B cut into chunks in any    *)
(* way, the chunks passed to Write in order, then Close.                   *)
(***************************************************************************)
RECURSIVE Splits(_)
\* every way of cutting B into non-empty chunks
Splits(B) ==
    IF B = <<>> THEN {<<>>}
    ELSE UNION {{<<Take(B, k)>> \o r : r \in Splits(Drop(B, k))} : k \in 1..Len(B)}

InitWriter ==
    /\ store = <<>>
    /\ tmpfiles = {<<"w", 1>>}
    /\ pc = [p \in Uploaders |-> "off"]
    /\ mode = [p \in Uploaders |-> "multi"]
    /\ nfiles = [p \in Uploaders |-> 0]
    /\ idx = [p \in Uploaders |-> 0]
    /\ cur = [p \in Uploaders |-> NoFile]
    /\ blob = [p \in Uploaders |-> NoBlob]
    /\ defers = [p \in Uploaders |-> <<>>]
    /\ out = [p \in Uploaders |-> <<>>]
    /\ ops = [p \in Uploaders |-> <<>>]
    /\ items = [p \in Uploaders |-> <<>>]
    /\ panicked = [p \in Uploaders |-> FALSE]
    /\ wB \in SeqsUpTo(Byte, MaxLen)
    /\ wchunks \in Splits(wB)
    /\ wdone = <<>>
    /\ wblob = NewBlob(<<"w", 1>>)
    /\ wstate = "open"
    /\ tA = NoTree /\ tB = NoTree /\ arcA = NoArchive /\ arcB = NoArchive /\ xfs = NoExtract

\* blob.Write(chunk); an error ends the copy
WriterWrite ==
    /\ wstate = "open"
    /\ wchunks # <<>>
    /\ \E io \in BOOLEAN :
          LET r == BlobWrite(wblob, Head(wchunks), io)
          IN  /\ wblob' = r.blob
              /\ wstate' = IF r.err THEN "failed" ELSE "open"
              /\ wchunks' = IF r.err THEN wchunks ELSE Tail(wchunks)
              /\ wdone' = IF r.err THEN wdone ELSE Append(wdone, Head(wchunks))
    /\ UNCHANGED <<wB, procVars, tarVars>>

\* blob.Close() once the input is consumed
WriterClose ==
    /\ wstate = "open"
    /\ wchunks = <<>>
    /\ \E io \in BOOLEAN : wblob' = BlobClose(wblob, io)
    /\ wstate' = "closed"
    /\ UNCHANGED <<wB, wchunks, wdone, procVars, tarVars>>

NextWriter == WriterWrite \/ WriterClose

SpecWriter == InitWriter /\ [][NextWriter]_vars

(***************************************************************************)
(* Two multiUpload requests served at the same time, one file each, on     *)
(* one bucket.  The files open and stage without fault; the store answers  *)
(* each call in any way.  The handlers interleave between store calls.     *)
(***************************************************************************)
InitConc ==
    /\ store \in {s \in PriorStores : \A k \in DOMAIN s : s[k].size = 3}
    /\ tmpfiles = {}
    /\ pc = [p \in Uploaders |-> "idle"]
    /\ mode = [p \in Uploaders |-> "multi"]
    /\ nfiles = [p \in Uploaders |-> 0]
    /\ idx = [p \in Uploaders |-> 0]
    /\ cur = [p \in Uploaders |-> NoFile]
    /\ blob = [p \in Uploaders |-> NoBlob]
    /\ defers = [p \in Uploaders |-> <<>>]
    /\ out = [p \in Uploaders |-> <<>>]
    /\ ops = [p \in Uploaders |-> <<>>]
    /\ items = [p \in Uploaders |-> <<>>]
    /\ panicked = [p \in Uploaders |-> FALSE]
    /\ wB = <<>> /\ wchunks = <<>> /\ wdone = <<>> /\ wblob = NoBlob /\ wstate = "off"
    /\ tA = NoTree /\ tB = NoTree /\ arcA = NoArchive /\ arcB = NoArchive /\ xfs = NoExtract

ConcRequest(p) == Request(p) /\ mode'[p] = "multi" /\ nfiles'[p] = 1
ConcOpen(p) == MultiOpen(p) /\ cur'[p].openOK
ConcStage(p) == MultiStage(p) /\ pc'[p] = "m_check" /\ ~blob'[p].gw.err

NextConc ==
    \E p \in Uploaders :
        \/ ConcRequest(p)
        \/ ConcOpen(p)
        \/ ConcStage(p)
        \/ MultiCheck(p)
        \/ UploadPut(p)
        \/ UploadRollback(p)
        \/ MultiDone(p)
        \/ HandlerReturn(p)

SpecConc == InitConc /\ [][NextConc]_vars

(***************************************************************************)
(* TarDir and Untargz alone: a directory tree tA is archived through a     *)
(* blob and the blob closed; a tree tB with the same relative paths,       *)
(* kinds, permission bits, contents and link targets, but any root path,   *)
(* modification time and owner, is archived the same way; the archive of   *)
(* tA is extracted into an empty directory.                                *)
(***************************************************************************)
\* most entries under the root of a tree
MaxEntries == 2

\* the paths under a root, in the order Walk visits them
RelPaths == << <<"a">>, <<"a", "/", "a">>, <<"a", "/", "b">>,
               <<"b">>, <<"b", "/", "a">>, <<"b", "/", "b">> >>

Roots == { <<"/", "r">>, <<"/", "a">> }
Dst == <<"/", "d">>

\* what an entry can be, apart from its path, time and owner
Nodes ==
    {[kind |-> "dir", perm |-> 493, body |-> <<>>, link |-> <<>>],
     [kind |-> "fifo", perm |-> 420, body |-> <<>>, link |-> <<>>],
     [kind |-> "socket", perm |-> 420, body |-> <<>>, link |-> <<>>]}
    \cup {[kind |-> "reg", perm |-> m, body |-> b, link |-> <<>>] :
             m \in {420, 384}, b \in {<<1>>, <<0, 1>>}}
    \cup {[kind |-> "symlink", perm |-> 511, body |-> <<>>, link |-> l] :
             l \in {<<"a">>, <<"b">>}}

\* sets of paths closed under parents
Shapes ==
    {S \in SUBSET (1..Len(RelPaths)) :
        /\ Cardinality(S) <= MaxEntries
        /\ \A i \in S : Len(RelPaths[i]) > 1 => \E j \in S : RelPaths[j] = Dir(RelPaths[i])}

RECURSIVE EntriesOf(_, _, _, _)
\* the entries at the paths S of the labelling f, in Walk order from index i
EntriesOf(S, f, i, stamp) ==
    IF i > Len(RelPaths) THEN <<>>
    ELSE (IF i \in S
          THEN <<[rel |-> RelPaths[i], kind |-> f[i].kind, perm |-> f[i].perm,
                  body |-> f[i].body, link |-> f[i].link,
                  mtime |-> stamp.mtime, uid |-> stamp.uid]>>
          ELSE <<>>) \o EntriesOf(S, f, i + 1, stamp)

RootEntry(stamp) ==
    [rel |-> <<>>, kind |-> "dir", perm |-> 493, body |-> <<>>, link |-> <<>>,
     mtime |-> stamp.mtime, uid |-> stamp.uid]

\* a tree: the root path and the entries, the root's own first
Tree(src, S, f, stamp) ==
    [src |-> src, entries |-> <<RootEntry(stamp)>> \o EntriesOf(S, f, 1, stamp)]

Stamps == [mtime : {1, 2}, uid : {0, 1}]

\* the labelled shapes: only a directory has entries under it
Labellings ==
    UNION {{[S |-> S, f |-> f] : f \in {g \in [S -> Nodes] :
                \A i, j \in S : RelPaths[i] = Dir(RelPaths[j]) => g[i].kind = "dir"}} :
           S \in Shapes}

InitTar ==
    /\ store = <<>>
    /\ tmpfiles = {}
    /\ pc = [p \in Uploaders |-> "off"]
    /\ mode = [p \in Uploaders |-> "multi"]
    /\ nfiles = [p \in Uploaders |-> 0]
    /\ idx = [p \in Uploaders |-> 0]
    /\ cur = [p \in Uploaders |-> NoFile]
    /\ blob = [p \in Uploaders |-> NoBlob]
    /\ defers = [p \in Uploaders |-> <<>>]
    /\ out = [p \in Uploaders |-> <<>>]
    /\ ops = [p \in Uploaders |-> <<>>]
    /\ items = [p \in Uploaders |-> <<>>]
    /\ panicked = [p \in Uploaders |-> FALSE]
    /\ wB = <<>> /\ wchunks = <<>> /\ wdone = <<>> /\ wblob = NoBlob /\ wstate = "off"
    /\ \E l \in Labellings, ra \in Roots, rb \in Roots, sb \in Stamps :
          /\ tA = Tree(ra, l.S, l.f, [mtime |-> 1, uid |-> 0])
          /\ tB = Tree(rb, l.S, l.f, sb)
    /\ arcA = NoArchive /\ arcB = NoArchive /\ xfs = NoExtract

\* TarDir(src, blob) on a new blob, then blob.Close()
TarToBlob(tree, file, io) ==
    LET r == TarDir(tree, NewBlob(file), io)
    IN  [made |-> TRUE, err |-> r.err, blob |-> BlobClose(r.blob, io)]

TarA ==
    /\ ~arcA.made
    /\ \E io \in BOOLEAN : arcA' = TarToBlob(tA, <<"t", 1>>, io)
    /\ UNCHANGED <<tA, tB, arcB, xfs, procVars, writerVars>>

TarB ==
    /\ ~arcB.made
    /\ \E io \in BOOLEAN : arcB' = TarToBlob(tB, <<"t", 2>>, io)
    /\ UNCHANGED <<tA, tB, arcA, xfs, procVars, writerVars>>

\* Untargz(dst, r) on the archive of tA, dst an empty directory
UntarA ==
    /\ arcA.made /\ ~arcA.err
    /\ ~xfs.made
    /\ xfs' = LET x == Untargz((Dst :> DirNode), Dst, arcA.blob.data)
              IN  [made |-> TRUE, err |-> x.err, fs |-> x.fs]
    /\ UNCHANGED <<tA, tB, arcA, arcB, procVars, writerVars>>

NextTar == TarA \/ TarB \/ UntarA

SpecTar == InitTar /\ [][NextTar]_vars

(***************************************************************************)
(* Untargz alone, on any archive: a tar writer packs up to MaxArchive      *)
(* entries of any type and name (a plain name, a name under a directory, a *)
(* name with a ".." element, an absolute name) through a blob, and Untargz *)
(* extracts the blob into Dst, which is empty or holds the file a already. *)
(***************************************************************************)
\* most entries in an archive handed to Untargz
MaxArchive == 2

ArchiveNames == { <<"a">>, <<"a", "/", "b">>, <<".", ".", "/", "a">>, <<"/", "a">> }
LinkTargets == { <<"b">>, <<".", ".">> }

\* the entries a tar writer can be given: a header and the bytes after it
ArchiveEntries ==
    {[header |-> [Typeflag |-> t, Name |-> n, Mode |-> 420, Uid |-> 0, Size |-> Len(b),
                  ModTime |-> 0, Linkname |-> l],
      body |-> b] :
        n \in ArchiveNames,
        t \in {TypeReg, TypeDir, TypeSymlink, TypeFifo},
        b \in {<<>>, <<1>>, <<0, 1>>},
        l \in LinkTargets \cup {<<>>}}

\* a regular file has bytes, a symlink a target, and nothing else has either
WellFormed(e) ==
    /\ (e.header.Typeflag = TypeReg) = (e.body # <<>>)
    /\ (e.header.Typeflag = TypeSymlink) = (e.header.Linkname # <<>>)

\* the file system before the extraction: the root and Dst, and in Dst
\* nothing or the regular file a
EmptyDst == (Separator :> DirNode) @@ (Dst :> DirNode)
BeforeExtract ==
    {EmptyDst,
     (Join(Dst, <<"a">>) :> [kind |-> "reg", perm |-> 420, body |-> <<1, 1, 1>>,
                             link |-> <<>>]) @@ EmptyDst}

InitUntar ==
    /\ store = <<>>
    /\ tmpfiles = {}
    /\ pc = [p \in Uploaders |-> "off"]
    /\ mode = [p \in Uploaders |-> "multi"]
    /\ nfiles = [p \in Uploaders |-> 0]
    /\ idx = [p \in Uploaders |-> 0]
    /\ cur = [p \in Uploaders |-> NoFile]
    /\ blob = [p \in Uploaders |-> NoBlob]
    /\ defers = [p \in Uploaders |-> <<>>]
    /\ out = [p \in Uploaders |-> <<>>]
    /\ ops = [p \in Uploaders |-> <<>>]
    /\ items = [p \in Uploaders |-> <<>>]
    /\ panicked = [p \in Uploaders |-> FALSE]
    /\ wB = <<>> /\ wchunks = <<>> /\ wdone = <<>> /\ wblob = NoBlob /\ wstate = "off"
    /\ \E es \in SeqsUpTo({e \in ArchiveEntries : WellFormed(e)}, MaxArchive) :
          tA = [src |-> <<>>, entries |-> es]
    /\ tB = NoTree
    /\ arcA = NoArchive /\ arcB = NoArchive
    /\ \E fs \in BeforeExtract : xfs = [made |-> FALSE, err |-> FALSE, fs |-> fs]

RECURSIVE PackWrites(_)
\* the Writes of a tar writer given the entries: each header, then the bytes
PackWrites(entries) ==
    IF entries = <<>> THEN <<>>
    ELSE <<WriteHeader(Head(entries).header)>>
            \o (IF Head(entries).body = <<>> THEN <<>> ELSE <<Head(entries).body>>)
            \o PackWrites(Tail(entries))

\* the archive is written through a blob and the blob closed
PackArchive ==
    /\ ~arcA.made
    /\ arcA' = LET c == CopyChunks(NewBlob(<<"t", 1>>),
                                   PackWrites(tA.entries) \o <<TarFooter>>, TRUE)
               IN  [made |-> TRUE, err |-> c.err, blob |-> BlobClose(c.blob, TRUE)]
    /\ UNCHANGED <<tA, tB, arcB, xfs, procVars, writerVars>>

\* Untargz(dst, r) on the archive, into the file system as it is
UnpackArchive ==
    /\ arcA.made
    /\ ~xfs.made
    /\ xfs' = LET x == Untargz(xfs.fs, Dst, arcA.blob.data)
              IN  [made |-> TRUE, err |-> x.err, fs |-> x.fs]
    /\ UNCHANGED <<tA, tB, arcA, arcB, procVars, writerVars>>

NextUntar == PackArchive \/ UnpackArchive

SpecUntar == InitUntar /\ [][NextUntar]_vars

(***************************************************************************)
(* TarZip: a zip archive converted to a tar stream.                        *)
(***************************************************************************)
MaxZip == 2

\* the names of the zip's entries (a directory's without its final slash)
ZipNames == { <<"a">>, <<"b">>, <<"a", "/", "a">>, <<"a", "/", "b">> }

\* the entries a zip archive can hold: zip.FileHeader.FileInfo() has the mode
\* and time of the entry and no owner
ZipFiles ==
    {[rel |-> n, kind |-> "dir", perm |-> 493, body |-> <<>>, link |-> <<>>,
      mtime |-> 1, uid |-> 0, openOK |-> TRUE] : n \in ZipNames}
    \cup {[rel |-> n, kind |-> "symlink", perm |-> 511, body |-> <<>>, link |-> <<>>,
           mtime |-> 1, uid |-> 0, openOK |-> TRUE] : n \in ZipNames}
    \cup {[rel |-> n, kind |-> "reg", perm |-> 420, body |-> b, link |-> <<>>,
           mtime |-> 1, uid |-> 0, openOK |-> o] :
             n \in ZipNames, b \in {<<1>>, <<0, 1>>}, o \in BOOLEAN}

\* the header TarZip writes for the zip entry f
TarZipHeader(f) ==
    LET header == FileInfoHeader(f, Base(f.rel))
    IN  [header EXCEPT !.ModTime = 0,
                       !.Name = StringsTrimPrefix(Base(f.rel), Separator)]

RECURSIVE TarZipWrites(_)
\* the Writes of TarZip's loop on the tar writer's destination and whether
\* the loop returned an error: a header for the entry, "return nil" for an
\* entry that is no regular file, else the entry's bytes
TarZipWrites(files) ==
    IF files = <<>> THEN [writes |-> <<>>, err |-> FALSE]
    ELSE LET f == Head(files)
             own == <<WriteHeader(TarZipHeader(f))>>
         IN  IF f.kind # "reg" THEN [writes |-> own, err |-> FALSE]
             ELSE IF ~f.openOK THEN [writes |-> own, err |-> TRUE]
             ELSE LET rest == TarZipWrites(Tail(files))
                  IN  [writes |-> own \o <<f.body>> \o rest.writes, err |-> rest.err]

\* TarZip(reader, size, writer) with a blob as the writer: the loop's Writes,
\* then the footer of tw.Close()
TarZip(zip, writer, io) ==
    LET w == TarZipWrites(zip.entries)
        c == CopyChunks(writer, w.writes \o <<TarFooter>>, io)
    IN  [blob |-> c.blob, err |-> w.err \/ c.err]

InitZip ==
    /\ store = <<>>
    /\ tmpfiles = {}
    /\ pc = [p \in Uploaders |-> "off"]
    /\ mode = [p \in Uploaders |-> "multi"]
    /\ nfiles = [p \in Uploaders |-> 0]
    /\ idx = [p \in Uploaders |-> 0]
    /\ cur = [p \in Uploaders |-> NoFile]
    /\ blob = [p \in Uploaders |-> NoBlob]
    /\ defers = [p \in Uploaders |-> <<>>]
    /\ out = [p \in Uploaders |-> <<>>]
    /\ ops = [p \in Uploaders |-> <<>>]
    /\ items = [p \in Uploaders |-> <<>>]
    /\ panicked = [p \in Uploaders |-> FALSE]
    /\ wB = <<>> /\ wchunks = <<>> /\ wdone = <<>> /\ wblob = NoBlob /\ wstate = "off"
    /\ \E n \in 0..MaxZip : \E fs \in [1..n -> ZipFiles] :
          tA = [src |-> <<>>, entries |-> fs]
    /\ tB = NoTree
    /\ arcA = NoArchive /\ arcB = NoArchive /\ xfs = NoExtract

\* TarZip into a new blob, then blob.Close()
ZipToTar ==
    /\ ~arcA.made
    /\ \E io \in BOOLEAN :
          arcA' = LET r == TarZip(tA, NewBlob(<<"t", 1>>), io)
                  IN  [made |-> TRUE, err |-> r.err, blob |-> BlobClose(r.blob, io)]
    /\ UNCHANGED <<tA, tB, arcB, xfs, procVars, writerVars>>

NextZip == ZipToTar

SpecZip == InitZip /\ [][NextZip]_vars


(***************************************************************************)
(* The writer used after Close: the calls of SpecWriter, then any further  *)
(* Write and Close calls on the closed blob, under either compress/flate.  *)
(***************************************************************************)
InitLate ==
    /\ store = <<>>
    /\ tmpfiles = {<<"w", 1>>}
    /\ pc = [p \in Uploaders |-> "off"]
    /\ mode = [p \in Uploaders |-> "multi"]
    /\ nfiles = [p \in Uploaders |-> 0]
    /\ idx = [p \in Uploaders |-> 0]
    /\ cur = [p \in Uploaders |-> NoFile]
    /\ blob = [p \in Uploaders |-> NoBlob]
    /\ defers = [p \in Uploaders |-> <<>>]
    /\ out = [p \in Uploaders |-> <<>>]
    /\ ops = [p \in Uploaders |-> <<>>]
    /\ items = [p \in Uploaders |-> <<>>]
    /\ panicked = [p \in Uploaders |-> FALSE]
    /\ wB \in SeqsUpTo(Byte, MaxLen)
    /\ wchunks \in Splits(wB)
    /\ wdone = <<>>
    /\ wblob \in {[NewBlob(<<"w", 1>>) EXCEPT !.gw.rejectsClosed = b] : b \in BOOLEAN}
    /\ wstate = "open"
    /\ tA = NoTree /\ tB = NoTree /\ arcA = NoArchive /\ arcB = NoArchive /\ xfs = NoExtract

\* blob.Write(q) on the closed blob; its error goes to the caller
WriterLateWrite ==
    /\ wstate = "closed"
    /\ \E q \in SeqsUpTo(Byte, CopyBufLen) \ {<<>>} :
          wblob' = BlobWrite(wblob, q, TRUE).blob
    /\ UNCHANGED <<wB, wchunks, wdone, wstate, procVars, tarVars>>

\* blob.Close() on the closed blob
WriterLateClose ==
    /\ wstate = "closed"
    /\ wblob' = BlobClose(wblob, TRUE)
    /\ UNCHANGED <<wB, wchunks, wdone, wstate, procVars, tarVars>>

NextLate == WriterWrite \/ WriterClose \/ WriterLateWrite \/ WriterLateClose

SpecLate == InitLate /\ [][NextLate]_vars

(***************************************************************************)
(* Properties.                                                             *)
(***************************************************************************)
Last(s) == s[Len(s)]
OpsAt(p, name) == {i \in DOMAIN ops[p] : ops[p][i].op = name}
\* the store answered every call of p truthfully and without error
Reliable(p) == \A i \in DOMAIN ops[p] : ops[p][i].res \in {"found", "absent", "ok"}
\* the outcome lines written for item i
LinesFor(p, i) ==
    {k \in DOMAIN out[p] : out[p][k].item = i
                           /\ out[p][k].line \in {"Uploaded", "replaced", "Error"}}
DigestKey(hash) == <<"b", "l", "o", "b", "/">> \o HexBytes(hash)

\* C1: multiUpload with a store that answers reliably and holds only objects
\* under digest keys: when items 1 and 2 of a batch stage the same content (same hash, same compressed size), item 2
\* is reported as a duplicate and issues no put and no delete, at most one
\* put is issued for the content, and the object is under its digest key.
C1_SameContentTwiceOnePut ==
    \A p \in Uploaders :
        (/\ pc[p] = "done" /\ mode[p] = "multi" /\ Reliable(p)
         /\ \A k \in DOMAIN store : \E B \in Contents : k = DigestKey(Sha256Of(B))
         /\ \E i, j \in OpsAt(p, "stat") :
               /\ ops[p][i].item = 1 /\ ops[p][j].item = 2
               /\ ops[p][i].hash = ops[p][j].hash /\ ops[p][i].size = ops[p][j].size)
        => LET h == ops[p][CHOOSE j \in OpsAt(p, "stat") : ops[p][j].item = 2].hash
           IN  /\ \E k \in LinesFor(p, 2) : out[p][k].line = "replaced"
               /\ \A i \in DOMAIN ops[p] : ops[p][i].item = 2 => ops[p][i].op = "stat"
               /\ Cardinality({i \in OpsAt(p, "put") : ops[p][i].hash = h}) <= 1
               /\ DigestKey(h) \in DOMAIN store

C3_FailedLookupProceedsToUpload ==
    \A p \in Uploaders :
        (/\ ops[p] # <<>>
         /\ Last(ops[p]).op = "stat"
         /\ Last(ops[p]).res \in {"geterr", "staterr", "absent"})
        => pc[p] = "put" /\ LinesFor(p, Last(ops[p]).item) = {}

C3_Witness ==
    \E p \in Uploaders :
        /\ ops[p] # <<>>
        /\ Last(ops[p]).op = "stat"
        /\ Last(ops[p]).res = "staterr"
        /\ Last(ops[p]).item = 2
        /\ pc[p] = "put"

\* C4: every put follows a dedup check made for the same item with the same
\* finalized hash.
C4_PutOnlyAfterDedupCheck ==
    \A p \in Uploaders : \A i \in OpsAt(p, "put") :
        /\ i > 1
        /\ ops[p][i - 1].op = "stat"
        /\ ops[p][i - 1].item = ops[p][i].item
        /\ ops[p][i - 1].hash = ops[p][i].hash

\* C5: for a finalized blob the key CheckDuplicate looks up, the key
\* UploadBlob writes and the key Reader reads are "blob/" followed by the
\* lowercase hex of the blob's hash.
C5_OneKeyForCheckUploadRead ==
    \A p \in Uploaders :
        pc[p] \in {"m_check", "put", "rollback"}
        => /\ CheckDuplicateKey(blob[p]) = DigestKey(BlobHash(blob[p]))
           /\ UploadBlobKey(blob[p]) = DigestKey(BlobHash(blob[p]))
           /\ ReaderKey(BlobHash(blob[p])) = DigestKey(BlobHash(blob[p]))

\* C6: a failed put is followed by exactly one delete of the same key for the
\* same item, nothing else is called after it, and the handler ends with the
\* upload failure (the Error line of multiUpload, the panic of
\* directoryUpload) whatever the delete answered.
C6_FailedPutOneDeleteAndFailure ==
    \A p \in Uploaders : \A i \in OpsAt(p, "put") :
        ops[p][i].res # "ok"
        => IF i = Len(ops[p]) THEN pc[p] = "rollback"
           ELSE /\ i + 1 = Len(ops[p])
                /\ ops[p][i + 1].op = "delete"
                /\ ops[p][i + 1].key = ops[p][i].key
                /\ ops[p][i + 1].item = ops[p][i].item
                /\ pc[p] \in {"ret", "done"}
                /\ IF mode[p] = "multi"
                   THEN /\ out[p] # <<>>
                        /\ Last(out[p]) = [item |-> ops[p][i].item, line |-> "Error"]
                        /\ Cardinality(LinesFor(p, ops[p][i].item)) = 1
                   ELSE panicked[p]

C6_Witness ==
    \E p \in Uploaders :
        /\ pc[p] = "done" /\ mode[p] = "multi"
        /\ Len(ops[p]) >= 2
        /\ ops[p][Len(ops[p]) - 1].op = "put"
        /\ ops[p][Len(ops[p]) - 1].res = "err"
        /\ Last(ops[p]).op = "delete"
        /\ Last(ops[p]).res = "err"
        /\ Last(out[p]).line = "Error"

\* C7: when a handler has ended, on any path, none of the temporary files it
\* created exists.
C7_NoStagingFileAfterHandler ==
    \A p \in Uploaders : pc[p] = "done" => {f \in tmpfiles : f[1] = p} = {}

C7_Witness ==
    \E p \in Uploaders :
        /\ pc[p] = "done"
        /\ panicked[p]
        /\ mode[p] = "multi"
        /\ Len(defers[p]) >= 1
        /\ {f \in tmpfiles : f[1] = p} = {}

\* C8: a multi-file batch that does not panic takes every file of the
\* request, also after a staging or upload failure on an earlier file.
C8_FailureDoesNotStopBatch ==
    \A p \in Uploaders :
        (pc[p] = "done" /\ mode[p] = "multi" /\ ~panicked[p]) => Len(items[p]) = nfiles[p]

\* C9: a multi-file batch writes exactly one outcome line (uploaded,
\* skipped-duplicate or error) for every file of the request.
C9_OneOutcomePerItem ==
    \A p \in Uploaders :
        (pc[p] = "done" /\ mode[p] = "multi")
        => \A i \in 1..nfiles[p] : Cardinality(LinesFor(p, i)) = 1

\* C10: for every byte sequence B and every cut of B into chunks written in
\* order, Hash() after Close is the digest of B computed in one piece.
C10_HashOfChunksIsHashOfInput ==
    wstate = "closed" => BlobHash(wblob) = Sha256Of(wB)

C10_Witness ==
    /\ wstate = "closed"
    /\ Len(wdone) >= 2
    /\ Len(wB) >= 3
    /\ BlobHash(wblob) = Sha256Of(wB)

\* C11: when multiUpload has staged a file and is at the dedup check or the
\* put, decompressing the temporary file yields exactly the file's bytes.
C11_StagedArtifactDecompressesToInput ==
    \A p \in Uploaders :
        (mode[p] = "multi" /\ pc[p] \in {"m_check", "put"})
        => Gunzip(blob[p].data) = [ok |-> TRUE, bytes |-> cur[p].body]

Answers(p) == [i \in DOMAIN ops[p] |-> ops[p][i].res]

\* C13: two requests that carry the same bytes under any two file names and
\* get the same answers from the store make the same store calls with the
\* same keys, hashes and sizes, and write the same outcome lines; the objects
\* they put differ at most in the reference metadata.
C13_ReferenceDoesNotInfluenceRun ==
    (/\ pc["u1"] = "done" /\ pc["u2"] = "done"
     /\ cur["u1"].body = cur["u2"].body
     /\ Answers("u1") = Answers("u2"))
    => /\ ops["u1"] = ops["u2"]
       /\ out["u1"] = out["u2"]
       /\ PutObject(blob["u1"]) = [PutObject(blob["u2"]) EXCEPT !.ReferenceName = blob["u1"].Reference]

C13_Witness ==
    /\ pc["u1"] = "done" /\ pc["u2"] = "done"
    /\ cur["u1"].body = cur["u2"].body
    /\ cur["u1"].Filename # cur["u2"].Filename
    /\ Answers("u1") = Answers("u2")
    /\ Len(ops["u1"]) = 2
    /\ ops["u1"][2].op = "put" /\ ops["u1"][2].res = "ok"
    /\ PutObject(blob["u1"]).ReferenceName # PutObject(blob["u2"]).ReferenceName

\* C14: a blob whose finalize failed (the gzip writer holds the error of its
\* Close) is never taken to the dedup check, the put or the rollback.
C14_FailedFinalizeStopsItem ==
    \A p \in Uploaders :
        (blob[p].gw.closed /\ blob[p].gw.err) => pc[p] \notin {"m_check", "put", "rollback"}

\* C15: when multiUpload ends at the staging of a file (the file opened and no
\* store call was made for it), whatever failed, the temporary file's creation
\* included, the handler did not panic and wrote the Error line of that file.
C15_StagingFailureIsAnErrorValue ==
    \A p \in Uploaders :
        (/\ mode[p] = "multi" /\ pc[p] \in {"ret", "done"}
         /\ items[p] # <<>> /\ Last(items[p]).openOK
         /\ \A i \in DOMAIN ops[p] : ops[p][i].item # Len(items[p]))
        => /\ ~panicked[p]
           /\ out[p] # <<>>
           /\ Last(out[p]) = [item |-> Len(items[p]), line |-> "Error"]

\* C16: two trees with the same relative paths, kinds, permission bits,
\* contents and link targets give the same archive bytes and the same hash,
\* whatever their root paths, modification times and owners.
C16_ArchiveDependsOnTreeOnly ==
    (arcA.made /\ arcB.made /\ ~arcA.err /\ ~arcB.err)
    => /\ arcA.blob.data = arcB.blob.data
       /\ BlobHash(arcA.blob) = BlobHash(arcB.blob)

\* what Untargz should leave under Dst for the tree: every entry at its path
Expected(tree) ==
    [q \in {Join(Dst, tree.entries[i].rel) : i \in DOMAIN tree.entries} |->
        LET e == tree.entries[CHOOSE i \in DOMAIN tree.entries : Join(Dst, tree.entries[i].rel) = q]
        IN  [kind |-> e.kind, body |-> e.body, link |-> e.link]]

\* C17: a tree of directories, regular files and symlinks archived by TarDir
\* through a blob and extracted by Untargz into an empty directory comes out
\* with the same relative paths, the same bytes in every regular file and the
\* same target for every symlink.
C17_TarThenUntarReproducesTree ==
    (/\ xfs.made
     /\ \A i \in DOMAIN tA.entries : tA.entries[i].kind \in {"dir", "reg", "symlink"})
    => /\ ~xfs.err
       /\ [q \in DOMAIN xfs.fs |-> [kind |-> xfs.fs[q].kind, body |-> xfs.fs[q].body,
                                     link |-> xfs.fs[q].link]] = Expected(tA)

\* both uploaders staged the same bytes, every store call they made succeeded
\* and their dedup checks found no object
SameNewContentNoFailure ==
    /\ pc["u1"] = "done" /\ pc["u2"] = "done"
    /\ cur["u1"].body = cur["u2"].body
    /\ \A p \in Uploaders : \A i \in DOMAIN ops[p] : ops[p][i].res \in {"absent", "ok"}

\* C18: two uploaders of the same new content, interleaved in any way with no
\* call failing: afterwards the bucket holds the content under its digest key
\* and under no other key, and the object is the one a single upload stores
\* (the one of whichever uploader put last).
C18_ConcurrentUploadsLeaveOneObject ==
    SameNewContentNoFailure
    => LET key == DigestKey(BlobHash(blob["u1"]))
       IN  /\ key \in DOMAIN store
           /\ store[key] \in {PutObject(blob[p]) : p \in Uploaders}
           /\ {k \in DOMAIN store : store[k].body = blob["u1"].data} = {key}

C18_Witness ==
    /\ SameNewContentNoFailure
    /\ cur["u1"].Filename # cur["u2"].Filename
    /\ \A p \in Uploaders : OpsAt(p, "put") # {}
    /\ store[DigestKey(BlobHash(blob["u1"]))].ReferenceName = cur["u1"].Filename

\* C19: while a multi-file batch runs, at most one temporary file of the
\* request exists: the file of an item is removed before the next item starts.
C19_OneStagingFileAtATime ==
    \A p \in Uploaders :
        mode[p] = "multi" => Cardinality({f \in tmpfiles : f[1] = p}) <= 1

\* C20: after Close, Size() is the number of units in the temporary file and
\* UncompressedSize() is the number of bytes passed to Write.
C20_SizesAfterClose ==
    wstate = "closed"
    => /\ BlobSize(wblob) = Len(wblob.data)
       /\ BlobUncompressedSize(wblob) = Len(wB)

C20_Witness ==
    /\ wstate = "closed"
    /\ Len(wB) = 3
    /\ Len(wdone) = 2
    /\ BlobUncompressedSize(wblob) = 3
    /\ BlobSize(wblob) = 4
    /\ Len(wblob.data) = 4

RECURSIVE TarList(_)
\* the entries a tar reader finds in the stream s, up to its end or first error
TarList(s) ==
    LET n == TarNext(s)
    IN  IF n.eof \/ n.err THEN <<>>
        ELSE <<[header |-> n.header, body |-> n.body]>> \o TarList(n.rest)

\* the entries of the archive TarDir made of tA
ArchiveA == TarList(GunzipRead(arcA.blob.data).bytes)

\* C21: the archive TarDir makes of a tree holds, for every entry it visits,
\* a header whose name is the entry's path under the root, whatever the root
\* path is and also when the root string occurs again inside the path.
C21_HeaderNameIsRelativePath ==
    (arcA.made /\ ~arcA.err)
    => /\ Len(ArchiveA) = Len(tA.entries)
       /\ \A i \in DOMAIN tA.entries : ArchiveA[i].header.Name = tA.entries[i].rel

\* C22: for every symlink of the tree the archive holds a symlink header that
\* carries the link's target, and no bytes follow it.
C22_SymlinkHeaderCarriesTarget ==
    (arcA.made /\ ~arcA.err)
    => \A i \in DOMAIN tA.entries :
          tA.entries[i].kind = "symlink"
          => /\ i <= Len(ArchiveA)
             /\ ArchiveA[i].header.Typeflag = TypeSymlink
             /\ ArchiveA[i].header.Linkname = tA.entries[i].link
             /\ ArchiveA[i].body = <<>>

RECURSIVE KindsKept(_)
\* the type flags of the directories, regular files and symlinks of the entries
KindsKept(entries) ==
    IF entries = <<>> THEN <<>>
    ELSE (CASE Head(entries).kind = "dir" -> <<TypeDir>>
            [] Head(entries).kind = "reg" -> <<TypeReg>>
            [] Head(entries).kind = "symlink" -> <<TypeSymlink>>
            [] OTHER -> <<>>) \o KindsKept(Tail(entries))

\* C23: when no write fails, TarDir returns without error whatever kinds of
\* entries the tree holds, and the archive holds one entry for every
\* directory, regular file and symlink of the tree and nothing for the others.
C23_OtherKindsAreSkipped ==
    (arcA.made /\ ~arcA.blob.gw.err)
    => /\ ~arcA.err
       /\ [i \in DOMAIN ArchiveA |-> ArchiveA[i].header.Typeflag] = KindsKept(tA.entries)

\* C24: when the last entry of an archive is a regular file and Untargz
\* returned without error, the file it was extracted to holds exactly the
\* entry's bytes, also when that file existed before with more bytes.
C24_RegularFileHoldsEntryBytes ==
    (/\ xfs.made /\ ~xfs.err
     /\ ArchiveA # <<>>
     /\ Last(ArchiveA).header.Typeflag = TypeReg)
    => LET at == RealPath(xfs.fs, Join(Dst, Last(ArchiveA).header.Name)).path
       IN  /\ at \in DOMAIN xfs.fs
           /\ xfs.fs[at].kind = "reg"
           /\ xfs.fs[at].body = Last(ArchiveA).body

\* the path is Dst or lies under it
InsideDst(q) == q = Dst \/ (Len(q) > Len(Dst) /\ Take(q, Len(Dst) + 1) = Dst \o Separator)

\* C27: whatever the archive, after Untargz every directory, file and symlink
\* of the file system other than the root lies inside Dst.
C27_ExtractionStaysInsideDst ==
    xfs.made => \A q \in DOMAIN xfs.fs : q = Separator \/ InsideDst(q)

\* the files of the request of p that got an entry in the archive
TarDirectoryNames(p) == SelectSeq(items[p], LAMBDA f : f.openOK)

Reverse(s) == [i \in DOMAIN s |-> s[Len(s) + 1 - i]]

\* C25: the archive directoryUpload builds holds one entry for every file of
\* the request and is the same, byte for byte and in its hash, as the archive
\* it builds when the same files arrive in the opposite order.
C25_ArchiveIndependentOfOrder ==
    \A p \in Uploaders :
        (mode[p] = "dir" /\ pc[p] = "put" /\ ~blob[p].gw.err)
        => /\ Len(TarDirectoryNames(p)) = nfiles[p]
           /\ blob[p].data = DirBlob(Reverse(items[p]), blob[p].File).data
           /\ BlobHash(blob[p]) = BlobHash(DirBlob(Reverse(items[p]), blob[p].File))

\* C26: once an item was reported as uploaded (its put succeeded) or as a
\* duplicate (its lookup found the object and "replaced" was written), the
\* store holds an object under the key of that call ever after; no rollback
\* delete of a later failed put removes it.
C26_ReportedObjectIsNeverRemoved ==
    \A p \in Uploaders : \A i \in DOMAIN ops[p] :
        (\/ ops[p][i].op = "put" /\ ops[p][i].res = "ok"
         \/ /\ ops[p][i].op = "stat"
            /\ \E k \in LinesFor(p, ops[p][i].item) : out[p][k].line = "replaced")
        => ops[p][i].key \in DOMAIN store

\* C28: the tar stream TarZip makes of a zip archive whose files all open
\* holds one entry for every entry of the zip, in the zip's order, each
\* regular file's with the file's bytes; an entry that is no regular file
\* does not end the conversion.
C28_OneTarEntryPerZipEntry ==
    (/\ arcA.made /\ ~arcA.blob.gw.err
     /\ \A i \in DOMAIN tA.entries : tA.entries[i].openOK)
    => /\ ~arcA.err
       /\ Len(ArchiveA) = Len(tA.entries)
       /\ \A i \in DOMAIN tA.entries :
             /\ ArchiveA[i].header.Name = Base(tA.entries[i].rel)
             /\ ArchiveA[i].body = tA.entries[i].body

====
